---- MODULE Spec2Model ----
(***************************************************************************)
(* Bayesian Knowledge Tracing core of the adaptive-learning backend:       *)
(* BKTModel.update_mastery, BKTModel.initialize_skill and                  *)
(* BKTModel.select_next_question (Backend/backend/src/bkt_model.py),       *)
(* select_assessment_questions (routes/assessment.py), the api.py session  *)
(* and the assessment.py assessment that store the masteries they produce, *)
(* and several callers of the one module-level BKTModel instance.          *)
(*                                                                         *)
(* Probabilities are exact rationals <<n, d>> in lowest terms with d > 0.  *)
(* Python computes them in binary floating point; the rounding of the      *)
(* last bit is not modelled.                                               *)
(***************************************************************************)
EXTENDS Integers, Sequences, FiniteSets, TLC

VARIABLES
    bkt,                 \* the BKTModel instance: p_init, p_learn, p_slip, p_guess
    call,                \* a direct call of update_mastery: arguments, locals at line 209, result
    session,             \* api.py: the stored session (a sequence of 0 or 1 session records)
    attempts,            \* api.py: store.attempts
    assessment,          \* assessment.py: the stored assessment (0 or 1 assessment records)
    skill_masteries,     \* select_next_question: the caller's mastery map (ordered dict)
    available_questions, \* select_next_question: the caller's candidate list
    threshold,           \* select_next_question: threshold argument
    exclude_ids,         \* select_next_question: exclude_ids argument
    decision,            \* select_next_question: the returned (question, reason)
    question_list,       \* select_assessment_questions: the caller's questions argument
    count,               \* select_assessment_questions: count argument
    selected,            \* select_assessment_questions: the returned list (0 or 1 lists)
    callers,             \* the callers sharing the instance: each one's call in progress
    constructed,         \* the parameters the instance was constructed with
    response,            \* the response of the last request handled
    learner              \* learning.py: the user's masteries and recorded answers (0 or 1)

vars == <<bkt, call, session, attempts, assessment,
          skill_masteries, available_questions, threshold, exclude_ids, decision,
          question_list, count, selected, callers, constructed, response, learner>>

selectionVars == <<question_list, count, selected>>
sharedVars == <<callers, constructed>>
handlerVars == <<response, learner>>

----------------------------------------------------------------------------
(* Bounds *)

GridN == 10          \* current_mastery arguments are k / GridN, k in 0..GridN
MaxAnswers == 3      \* answers submitted to one session
MaxPool == 2         \* length of the candidate list
MaxAssessmentPool == 3   \* length of the list given to select_assessment_questions

----------------------------------------------------------------------------
(* Exact rational arithmetic *)

RECURSIVE GCD(_, _)
GCD(a, b) == IF b = 0 THEN a ELSE GCD(b, a % b)

Abs(n) == IF n < 0 THEN -n ELSE n

Rat(n, d) ==
    LET g == GCD(Abs(n), d)
    IN  IF n = 0 THEN <<0, 1>> ELSE <<n \div g, d \div g>>

Zero == <<0, 1>>
One == <<1, 1>>

\* common factors are divided out before multiplying, to keep the products small
RAdd(a, b) ==
    LET g == GCD(a[2], b[2])
    IN  Rat(a[1] * (b[2] \div g) + b[1] * (a[2] \div g), (a[2] \div g) * b[2])
RSub(a, b) ==
    LET g == GCD(a[2], b[2])
    IN  Rat(a[1] * (b[2] \div g) - b[1] * (a[2] \div g), (a[2] \div g) * b[2])
RMul(a, b) ==
    LET g == GCD(Abs(a[1]), b[2])
        h == GCD(Abs(b[1]), a[2])
    IN  Rat((a[1] \div g) * (b[1] \div h), (a[2] \div h) * (b[2] \div g))
RLt(a, b) ==
    LET g == GCD(a[2], b[2]) IN a[1] * (b[2] \div g) < b[1] * (a[2] \div g)
RLe(a, b) ==
    LET g == GCD(a[2], b[2]) IN a[1] * (b[2] \div g) <= b[1] * (a[2] \div g)
RGt(a, b) == RLt(b, a)
RGe(a, b) == RLe(b, a)

\* Python min(a, b) / max(a, b): the first argument wins a tie
RMin(a, b) == IF RLt(b, a) THEN b ELSE a
RMax(a, b) == IF RGt(b, a) THEN b ELSE a

\* a float result or a raised exception
Value(v) == [exc |-> "", value |-> v]
Raised(e) == [exc |-> e, value |-> Zero]

\* Python a / b on floats
TrueDiv(a, b) ==
    IF b[1] = 0 THEN Raised("ZeroDivisionError")
    ELSE IF b[1] < 0 THEN Value(RMul(a, <<-b[2], -b[1]>>))
    ELSE Value(RMul(a, <<b[2], b[1]>>))

----------------------------------------------------------------------------
(* BKTModel *)

\* BKTModel(): the default parameters
BKTModel == [p_init |-> Rat(3, 10), p_learn |-> Rat(1, 5),
             p_slip |-> Rat(1, 10), p_guess |-> Rat(1, 4)]

None == "None"

\* Python truthiness of an Optional[str]
Truthy(s) == s # None /\ s # ""

\* variant: the prior is customised by skill name
initialize_skill_by_name(self, skill_name) ==
    IF Truthy(skill_name) THEN self.p_learn ELSE self.p_init

\* return self.p_init
initialize_skill(self, skill_name) == self.p_init

\* variant: the hard clamps are floors (max) instead of ceilings (min)
AdjustedParamsHardMax(self, question_difficulty) ==
    IF Truthy(question_difficulty) /\ question_difficulty = "hard"
    THEN [p_slip |-> RMax(RMul(self.p_slip, Rat(3, 2)), Rat(1, 5)),
          p_guess |-> self.p_guess,
          p_learn |-> RMax(RMul(self.p_learn, Rat(6, 5)), Rat(3, 10))]
    ELSE IF Truthy(question_difficulty) /\ question_difficulty = "easy"
    THEN [p_slip |-> RMax(RMul(self.p_slip, Rat(7, 10)), Rat(1, 20)),
          p_guess |-> self.p_guess,
          p_learn |-> RMax(RMul(self.p_learn, Rat(4, 5)), Rat(1, 10))]
    ELSE IF Truthy(question_difficulty) /\ question_difficulty = "very_easy"
    THEN [p_slip |-> RMax(RMul(self.p_slip, Rat(1, 2)), Rat(3, 100)),
          p_guess |-> self.p_guess,
          p_learn |-> RMax(RMul(self.p_learn, Rat(3, 5)), Rat(1, 20))]
    ELSE [p_slip |-> self.p_slip, p_guess |-> self.p_guess, p_learn |-> self.p_learn]

\* variant: the easy and very_easy rows are exchanged
AdjustedParamsEasyRowsExchanged(self, question_difficulty) ==
    IF Truthy(question_difficulty) /\ question_difficulty = "hard"
    THEN [p_slip |-> RMin(RMul(self.p_slip, Rat(3, 2)), Rat(1, 5)),
          p_guess |-> self.p_guess,
          p_learn |-> RMin(RMul(self.p_learn, Rat(6, 5)), Rat(3, 10))]
    ELSE IF Truthy(question_difficulty) /\ question_difficulty = "very_easy"
    THEN [p_slip |-> RMax(RMul(self.p_slip, Rat(7, 10)), Rat(1, 20)),
          p_guess |-> self.p_guess,
          p_learn |-> RMax(RMul(self.p_learn, Rat(4, 5)), Rat(1, 10))]
    ELSE IF Truthy(question_difficulty) /\ question_difficulty = "easy"
    THEN [p_slip |-> RMax(RMul(self.p_slip, Rat(1, 2)), Rat(3, 100)),
          p_guess |-> self.p_guess,
          p_learn |-> RMax(RMul(self.p_learn, Rat(3, 5)), Rat(1, 20))]
    ELSE [p_slip |-> self.p_slip, p_guess |-> self.p_guess, p_learn |-> self.p_learn]

\* the locals p_slip, p_guess, p_learn of update_mastery after the difficulty adjustment
AdjustedParams(self, question_difficulty) ==
    IF Truthy(question_difficulty) /\ question_difficulty = "hard"
    THEN [p_slip |-> RMin(RMul(self.p_slip, Rat(3, 2)), Rat(1, 5)),
          p_guess |-> self.p_guess,
          p_learn |-> RMin(RMul(self.p_learn, Rat(6, 5)), Rat(3, 10))]
    ELSE IF Truthy(question_difficulty) /\ question_difficulty = "easy"
    THEN [p_slip |-> RMax(RMul(self.p_slip, Rat(7, 10)), Rat(1, 20)),
          p_guess |-> self.p_guess,
          p_learn |-> RMax(RMul(self.p_learn, Rat(4, 5)), Rat(1, 10))]
    ELSE IF Truthy(question_difficulty) /\ question_difficulty = "very_easy"
    THEN [p_slip |-> RMax(RMul(self.p_slip, Rat(1, 2)), Rat(3, 100)),
          p_guess |-> self.p_guess,
          p_learn |-> RMax(RMul(self.p_learn, Rat(3, 5)), Rat(1, 20))]
    ELSE [p_slip |-> self.p_slip, p_guess |-> self.p_guess, p_learn |-> self.p_learn]

\* variant: the two evidence branches are exchanged
PosteriorSwapped(adj, current_mastery, is_correct) ==
    LET numerator ==
            IF ~is_correct
            THEN RMul(current_mastery, RSub(One, adj.p_slip))
            ELSE RMul(current_mastery, adj.p_slip)
        denominator ==
            IF ~is_correct
            THEN RAdd(RMul(current_mastery, RSub(One, adj.p_slip)),
                      RMul(RSub(One, current_mastery), adj.p_guess))
            ELSE RAdd(RMul(current_mastery, adj.p_slip),
                      RMul(RSub(One, current_mastery), RSub(One, adj.p_guess)))
    IN  IF RGt(denominator, Zero)
        THEN TrueDiv(numerator, denominator)
        ELSE Value(current_mastery)

\* variant: a zero denominator falls back to 0.0 instead of current_mastery
PosteriorFallbackZero(adj, current_mastery, is_correct) ==
    LET numerator ==
            IF is_correct
            THEN RMul(current_mastery, RSub(One, adj.p_slip))
            ELSE RMul(current_mastery, adj.p_slip)
        denominator ==
            IF is_correct
            THEN RAdd(RMul(current_mastery, RSub(One, adj.p_slip)),
                      RMul(RSub(One, current_mastery), adj.p_guess))
            ELSE RAdd(RMul(current_mastery, adj.p_slip),
                      RMul(RSub(One, current_mastery), RSub(One, adj.p_guess)))
    IN  IF RGt(denominator, Zero)
        THEN TrueDiv(numerator, denominator)
        ELSE Value(Zero)

\* variant: the division is not guarded
PosteriorUnguarded(adj, current_mastery, is_correct) ==
    IF is_correct
    THEN TrueDiv(RMul(current_mastery, RSub(One, adj.p_slip)),
                 RAdd(RMul(current_mastery, RSub(One, adj.p_slip)),
                      RMul(RSub(One, current_mastery), adj.p_guess)))
    ELSE TrueDiv(RMul(current_mastery, adj.p_slip),
                 RAdd(RMul(current_mastery, adj.p_slip),
                      RMul(RSub(One, current_mastery), RSub(One, adj.p_guess))))

\* p_known_given_response: Bayes' rule with the division guard
Posterior(adj, current_mastery, is_correct) ==
    LET numerator ==
            IF is_correct
            THEN RMul(current_mastery, RSub(One, adj.p_slip))
            ELSE RMul(current_mastery, adj.p_slip)
        denominator ==
            IF is_correct
            THEN RAdd(RMul(current_mastery, RSub(One, adj.p_slip)),
                      RMul(RSub(One, current_mastery), adj.p_guess))
            ELSE RAdd(RMul(current_mastery, adj.p_slip),
                      RMul(RSub(One, current_mastery), RSub(One, adj.p_guess)))
    IN  IF RGt(denominator, Zero)
        THEN TrueDiv(numerator, denominator)
        ELSE Value(current_mastery)

\* variant: learning is added without the (1 - p_known) factor
LearningTransitionAdditive(p_known, p_learn) == RAdd(p_known, p_learn)

\* new_mastery = p_known + (1 - p_known) * p_learn
LearningTransition(p_known, p_learn) ==
    RAdd(p_known, RMul(RSub(One, p_known), p_learn))

\* variant: the upper clamp is below 1.0
ClampBelowOne(new_mastery) == RMin(RMax(new_mastery, Zero), Rat(9, 10))

\* return min(max(new_mastery, 0.0), 1.0)
Clamp(new_mastery) == RMin(RMax(new_mastery, Zero), One)

update_mastery(self, current_mastery, is_correct, question_difficulty) ==
    LET adj == AdjustedParams(self, question_difficulty)
        p_known_given_response == Posterior(adj, current_mastery, is_correct)
    IN  IF p_known_given_response.exc # ""
        THEN p_known_given_response
        ELSE Value(Clamp(LearningTransition(p_known_given_response.value, adj.p_learn)))

----------------------------------------------------------------------------
(* Questions and mastery maps *)

\* a question is a record [id, skill, difficulty]; Absent marks a key the dict lacks
Absent == "<absent>"

\* q.get(key, default)
Get(q, key, default) == IF q[key] = Absent THEN default ELSE q[key]

Range(s) == {s[i] : i \in 1..Len(s)}

\* a mastery map is a Python dict in insertion order: a sequence of <<skill, mastery>>
Keys(m) == [i \in 1..Len(m) |-> m[i][1]]
HasKey(m, k) == \E i \in 1..Len(m) : m[i][1] = k
Lookup(m, k) == m[CHOOSE i \in 1..Len(m) : m[i][1] = k][2]

\* m.get(k, default)
MapGet(m, k, default) == IF HasKey(m, k) THEN Lookup(m, k) ELSE default

\* variant: the map is replaced by one that holds the key alone
MapSetAlone(m, k, v) == <<<<k, v>>>>

\* m[k] = v: overwrite in place, or append a new key
MapSet(m, k, v) ==
    IF HasKey(m, k)
    THEN [i \in 1..Len(m) |-> IF m[i][1] = k THEN <<k, v>> ELSE m[i]]
    ELSE Append(m, <<k, v>>)

\* min(keys, key=...): the first key, in iteration order, of minimal value
MinKey(keys, vals) ==
    keys[CHOOSE i \in 1..Len(keys) :
            /\ \A j \in 1..Len(keys) : RLe(vals[i], vals[j])
            /\ \A j \in 1..(i - 1) : RGt(vals[j], vals[i])]

Digit(k) ==
    CASE k = 0 -> "0" [] k = 1 -> "1" [] k = 2 -> "2" [] k = 3 -> "3" [] k = 4 -> "4"
      [] k = 5 -> "5" [] k = 6 -> "6" [] k = 7 -> "7" [] k = 8 -> "8" [] k = 9 -> "9"

\* f"{x:.2f}" for 0 <= x < 10 as its characters; an exact tie rounds to the even digit
Fmt2f(x) ==
    LET scaled == 100 * x[1]
        q == scaled \div x[2]
        r == scaled % x[2]
        h == IF 2 * r > x[2] \/ (2 * r = x[2] /\ q % 2 = 1) THEN q + 1 ELSE q
    IN  <<Digit(h \div 100), ".", Digit((h \div 10) % 10), Digit(h % 10)>>

----------------------------------------------------------------------------
(* BKTModel.select_next_question *)

\* Optional[dict]: a sequence of no (None) or one question
NoQuestion == <<>>
Decision(q, reason) == [question |-> q, reason |-> reason]

\* variant: the exclusion filter is skipped
FilteredNothing(questions, excl) == questions

\* available_questions after "Filter out excluded questions"
Filtered(questions, excl) ==
    IF excl # <<>>
    THEN SelectSeq(questions, LAMBDA q : Get(q, "id", None) \notin Range(excl))
    ELSE questions

\* variant: a mastery equal to the threshold counts as weak
WeakSkillsInclusive(masteries, thr) == SelectSeq(masteries, LAMBDA e : RLe(e[2], thr))

\* weak_skills = {skill: mastery for ... if mastery < threshold}
WeakSkills(masteries, thr) == SelectSeq(masteries, LAMBDA e : RLt(e[2], thr))

\* variant: the first weak skill is taken, not the weakest
TargetSkillFirst(weak_skills) == weak_skills[1][1]

\* target_skill = min(weak_skills.keys(), key=lambda k: weak_skills[k])
TargetSkill(weak_skills) ==
    MinKey(Keys(weak_skills), [i \in 1..Len(weak_skills) |-> Lookup(weak_skills, weak_skills[i][1])])

\* variant: the band boundaries are inclusive
PreferredDifficultiesInclusive(mastery) ==
    IF RLe(mastery, Rat(3, 10)) THEN <<"very_easy", "easy">>
    ELSE IF RLe(mastery, Rat(3, 5)) THEN <<"easy", "medium">>
    ELSE <<"medium", "hard">>

\* preferred_difficulties by mastery band
PreferredDifficulties(mastery) ==
    IF RLt(mastery, Rat(3, 10)) THEN <<"very_easy", "easy">>
    ELSE IF RLt(mastery, Rat(3, 5)) THEN <<"easy", "medium">>
    ELSE <<"medium", "hard">>

\* Strategy 1: the decisions random.choice can produce, {} when the branch does not return
WeakSkillDecisions(masteries, questions, thr) ==
    LET weak_skills == WeakSkills(masteries, thr)
    IN  IF weak_skills = <<>> THEN {}
        ELSE
        LET target_skill == TargetSkill(weak_skills)
            matching_questions ==
                SelectSeq(questions, LAMBDA q : Get(q, "skill", None) = target_skill)
            mastery == Lookup(weak_skills, target_skill)
            preferred_difficulties == PreferredDifficulties(mastery)
            preferred_questions ==
                SelectSeq(matching_questions,
                          LAMBDA q : Get(q, "difficulty", None) \in Range(preferred_difficulties))
        IN  IF matching_questions = <<>> THEN {}
            ELSE IF preferred_questions # <<>>
            THEN {Decision(<<question>>,
                           <<"Targeting weak skill: ", target_skill, " (mastery: ">>
                             \o Fmt2f(mastery)
                             \o <<") with ", Get(question, "difficulty", "medium"), " difficulty">>)
                  : question \in Range(preferred_questions)}
            ELSE {Decision(<<question>>,
                           <<"Targeting weak skill: ", target_skill, " (mastery: ">>
                             \o Fmt2f(mastery) \o <<")">>)
                  : question \in Range(matching_questions)}

\* skill_groups: the group keys in order of first appearance
RECURSIVE GroupKeys(_)
GroupKeys(questions) ==
    IF questions = <<>> THEN <<>>
    ELSE LET front == GroupKeys(SubSeq(questions, 1, Len(questions) - 1))
             skill == Get(questions[Len(questions)], "skill", "unknown")
         IN  IF skill \in Range(front) THEN front ELSE Append(front, skill)

\* skill_groups[skill]
Group(questions, skill) ==
    SelectSeq(questions, LAMBDA q : Get(q, "skill", "unknown") = skill)

\* Strategy 2: balanced exploration, {} when the branch does not return
BalancingDecisions(masteries, questions) ==
    LET group_keys == GroupKeys(questions)
        known == SelectSeq(group_keys, LAMBDA s : HasKey(masteries, s))
        least_practiced ==
            IF known = <<>> THEN None
            ELSE MinKey(known, [i \in 1..Len(known) |-> MapGet(masteries, known[i], Zero)])
    IN  IF Len(group_keys) > 1 /\ masteries # <<>>
           /\ Truthy(least_practiced) /\ least_practiced \in Range(group_keys)
        THEN {Decision(<<question>>,
                       <<"Balancing skill exposure: ", least_practiced, " (mastery: ">>
                         \o Fmt2f(MapGet(masteries, least_practiced, Zero)) \o <<")">>)
              : question \in Range(Group(questions, least_practiced))}
        ELSE {}

\* variant: the fallback gives up
RandomDecisionsNone(questions) == {Decision(NoQuestion, <<"No skill match">>)}

\* Strategy 3: random fallback
RandomDecisions(questions) ==
    {Decision(<<question>>,
              <<"Random selection (all skills above threshold or no skill match)">>)
     : question \in Range(questions)}

\* variant: both empty-pool returns carry the same reason
select_next_question_one_reason(masteries, questions, thr, excl) ==
    IF questions = <<>>
    THEN {Decision(NoQuestion, <<"No questions available">>)}
    ELSE LET remaining == Filtered(questions, excl)
         IN  IF remaining = <<>>
             THEN {Decision(NoQuestion, <<"No questions available">>)}
             ELSE LET weak == WeakSkillDecisions(masteries, remaining, thr)
                      balancing == BalancingDecisions(masteries, remaining)
                  IN  IF weak # {} THEN weak
                      ELSE IF balancing # {} THEN balancing
                      ELSE RandomDecisions(remaining)

\* the set of (question, reason) pairs the call can return
select_next_question(masteries, questions, thr, excl) ==
    IF questions = <<>>
    THEN {Decision(NoQuestion, <<"No questions available">>)}
    ELSE LET remaining == Filtered(questions, excl)
         IN  IF remaining = <<>>
             THEN {Decision(NoQuestion, <<"No questions available after filtering">>)}
             ELSE LET weak == WeakSkillDecisions(masteries, remaining, thr)
                      balancing == BalancingDecisions(masteries, remaining)
                  IN  IF weak # {} THEN weak
                      ELSE IF balancing # {} THEN balancing
                      ELSE RandomDecisions(remaining)

----------------------------------------------------------------------------
(* api.py: the question store and a session *)

\* store.questions of the session's subject
StoreQuestions ==
    << [id |-> "q1", skill |-> "algebra", difficulty |-> "easy", correct_answer |-> "A"],
       [id |-> "q2", skill |-> "algebra", difficulty |-> "hard", correct_answer |-> "b"],
       [id |-> "q3", skill |-> "geometry", difficulty |-> "medium", correct_answer |-> "A"] >>

\* request.answer
Answers == {"A", " a ", "B"}

\* s.strip().lower()
StripLower(s) ==
    CASE s = "A" -> "a" [] s = " a " -> "a" [] s = "a" -> "a"
      [] s = "B" -> "b" [] s = "b" -> "b"

\* skills = list(set(q.get('skill', 'unknown') for q in questions))
SkillsOf(questions) == GroupKeys(questions)

\* start_session: the session as saved, every skill at bkt.initialize_skill()
StartedSession(self) ==
    [skill_masteries |->
        [i \in 1..Len(SkillsOf(StoreQuestions)) |->
            <<SkillsOf(StoreQuestions)[i], initialize_skill(self, None)>>],
     answered_questions |-> <<>>]

----------------------------------------------------------------------------
(* assessment.py: select_assessment_questions and an assessment *)

\* variant: a question without a difficulty sorts first
DifficultyRankUntaggedFirst(q) ==
    LET d == Get(q, "difficulty", "very_easy")
    IN  CASE d = "very_easy" -> 0 [] d = "easy" -> 1 [] d = "medium" -> 2
          [] d = "hard" -> 3 [] OTHER -> 2

\* the sort key: {'very_easy': 0, ...}.get(q.get('difficulty', 'medium'), 2)
DifficultyRank(q) ==
    LET d == Get(q, "difficulty", "medium")
    IN  CASE d = "very_easy" -> 0 [] d = "easy" -> 1 [] d = "medium" -> 2
          [] d = "hard" -> 3 [] OTHER -> 2

\* list.sort(key=rank): stable
SortByDifficulty(qs) ==
    SelectSeq(qs, LAMBDA q : DifficultyRank(q) = 0)
      \o SelectSeq(qs, LAMBDA q : DifficultyRank(q) = 1)
      \o SelectSeq(qs, LAMBDA q : DifficultyRank(q) = 2)
      \o SelectSeq(qs, LAMBDA q : DifficultyRank(q) = 3)

Min2(a, b) == IF a < b THEN a ELSE b
Max2(a, b) == IF a > b THEN a ELSE b

\* qs[:n], n possibly negative
SliceTo(qs, n) ==
    IF n >= 0 THEN SubSeq(qs, 1, Min2(n, Len(qs)))
    ELSE SubSeq(qs, 1, Max2(0, Len(qs) + n))

\* qs[::step]
EveryNth(qs, step) ==
    [i \in 1..((Len(qs) + step - 1) \div step) |-> qs[1 + (i - 1) * step]]

\* the sorted group of a skill
SortedGroup(questions, skill) == SortByDifficulty(Group(questions, skill))

\* first pass: from the first n skill groups
RECURSIVE FirstPass(_, _, _, _)
FirstPass(questions, group_keys, n, questions_per_skill) ==
    IF n = 0 THEN <<>>
    ELSE LET skill_questions == SortedGroup(questions, group_keys[n])
             step == Max2(1, Len(skill_questions) \div questions_per_skill)
         IN  FirstPass(questions, group_keys, n - 1, questions_per_skill)
               \o SliceTo(EveryNth(skill_questions, step), questions_per_skill)

\* [q for qs in skills.values() for q in qs]: the sorted groups, concatenated
RECURSIVE Flattened(_, _, _)
Flattened(questions, group_keys, n) ==
    IF n = 0 THEN <<>>
    ELSE Flattened(questions, group_keys, n - 1) \o SortedGroup(questions, group_keys[n])

\* variant: the per-skill quota is one too large
QuestionsPerSkillPlusOne(clamped, skills_count) == Max2(1, clamped \div skills_count + 1)

\* questions_per_skill = max(1, count // skills_count)
QuestionsPerSkill(clamped, skills_count) == Max2(1, clamped \div skills_count)

\* variant: the fill pass does not leave out the questions already selected
SelectedBeforeLimitUnfiltered(pool, requested) ==
    LET clamped == Min2(requested, Len(pool))
        group_keys == GroupKeys(pool)
        skills_count == Len(group_keys)
        questions_per_skill == QuestionsPerSkill(clamped, skills_count)
        first == FirstPass(pool, group_keys, skills_count, questions_per_skill)
        remaining == SortByDifficulty(Flattened(pool, group_keys, skills_count))
    IN  IF Len(first) < clamped
        THEN first \o SliceTo(remaining, clamped - Len(first))
        ELSE first

\* selected before "Limit to count and shuffle"
SelectedBeforeLimit(pool, requested) ==
    LET clamped == Min2(requested, Len(pool))
        group_keys == GroupKeys(pool)
        skills_count == Len(group_keys)
        questions_per_skill == QuestionsPerSkill(clamped, skills_count)
        first == FirstPass(pool, group_keys, skills_count, questions_per_skill)
        remaining ==
            SortByDifficulty(
                SelectSeq(Flattened(pool, group_keys, skills_count),
                          LAMBDA q : q \notin Range(first)))
    IN  IF Len(first) < clamped
        THEN first \o SliceTo(remaining, clamped - Len(first))
        ELSE first

\* select_assessment_questions before the final shuffle
SelectedBeforeShuffle(pool, requested) ==
    IF pool = <<>> THEN <<>>
    ELSE SliceTo(SelectedBeforeLimit(pool, requested), Min2(requested, Len(pool)))

\* random.shuffle: every order of the list
Shuffles(qs) ==
    {[i \in 1..Len(qs) |-> qs[f[i]]] :
        f \in {g \in [1..Len(qs) -> 1..Len(qs)] : \A i, j \in 1..Len(qs) : i # j => g[i] # g[j]}}

\* variant: the list is shuffled before it is limited to count
select_assessment_questions_shuffle_first(pool, requested) ==
    IF pool = <<>> THEN {<<>>}
    ELSE {SliceTo(s, Min2(requested, Len(pool)))
          : s \in Shuffles(SelectedBeforeLimit(pool, requested))}

\* the lists select_assessment_questions(questions, count) can return
select_assessment_questions(pool, requested) ==
    Shuffles(SelectedBeforeShuffle(pool, requested))

\* request.question_count
QuestionCounts == {1, 2, 10}

\* start_assessment: the assessments it can store
StartedAssessments(self) ==
    {[questions |-> [i \in 1..Len(selected_questions) |-> selected_questions[i].id],
      current_index |-> 0,
      answers |-> <<>>,
      skill_masteries |->
          [i \in 1..Len(SkillsOf(StoreQuestions)) |->
              <<SkillsOf(StoreQuestions)[i], initialize_skill(self, SkillsOf(StoreQuestions)[i])>>],
      status |-> "in_progress"]
     : selected_questions \in
          {sel \in UNION {select_assessment_questions(StoreQuestions, question_count)
                          : question_count \in QuestionCounts} : sel # <<>>}}

----------------------------------------------------------------------------
(* Inputs *)

MasteryGrid == {Rat(k, GridN) : k \in 0..GridN}

DifficultyArgs == {None, "very_easy", "easy", "medium", "hard"}

\* BKTModel(p_init, p_learn, p_slip, p_guess) with probabilities in [0, 1]
Models ==
    [p_init : {Rat(3, 10), One},
     p_learn : {Zero, Rat(1, 5), Rat(1, 2), One},
     p_slip : {Zero, Rat(1, 10), Rat(1, 5), Rat(1, 2), One},
     p_guess : {Zero, Rat(1, 4), Rat(1, 2), Rat(24, 25), One}]

\* a call of update_mastery about to be made with the given arguments
Pending(current_mastery, is_correct, question_difficulty) ==
    [op |-> "pending", current_mastery |-> current_mastery, is_correct |-> is_correct,
     question_difficulty |-> question_difficulty,
     p_slip |-> Zero, p_guess |-> Zero, p_learn |-> Zero, ret |-> Value(Zero)]

NoDecision == Decision(NoQuestion, <<>>)

\* the skills of the mastery maps, in insertion order
SkillNames == <<"algebra", "geometry">>

SelectMasteries == {Rat(1, 5), Rat(3, 10), Rat(3, 5), Rat(4, 5)}
Thresholds == {Rat(4, 5), Rat(1, 2)}

\* the maps whose keys are the first n skill names (the pools below hold every
\* assignment of skills to questions, so other key orders add only renamings)
MasteryMaps ==
    UNION {{[i \in 1..n |-> <<SkillNames[i], vs[i]>>] : vs \in [1..n -> SelectMasteries]}
           : n \in 0..Len(SkillNames)}

QuestionIds == [i \in 1..(MaxPool + 1) |-> <<"q", i>>]

\* every question carries a difficulty; its skill tag may be missing
QuestionKinds ==
    [skill : Range(SkillNames) \cup {Absent},
     difficulty : {"very_easy", "easy", "medium", "hard"}]

Pools ==
    UNION {{[i \in 1..n |-> [id |-> QuestionIds[i], skill |-> ks[i].skill,
                             difficulty |-> ks[i].difficulty]]
            : ks \in [1..n -> QuestionKinds]}
           : n \in 0..MaxPool}

\* exclude_ids: None (the empty list behaves alike), the first id, or every id of the pool
ExcludeLists(pool) == {[i \in 1..n |-> pool[i].id] : n \in {0, 1, Len(pool)} \cap 0..Len(pool)}

\* a skill identifier is an opaque string: maps and pools whose first skill is the empty string
UnnamedSkillNames == <<"", "geometry">>

\* the maps of those skills, alone or after a skill that has no question in the pools
UnnamedMasteryMaps ==
    UNION {{[i \in 1..Len(names) |-> <<names[i], vs[i]>>]
            : vs \in [1..Len(names) -> SelectMasteries]}
           : names \in {UnnamedSkillNames, <<"algebra">> \o UnnamedSkillNames}}

UnnamedPools ==
    UNION {{[i \in 1..n |-> [id |-> QuestionIds[i], skill |-> ks[i], difficulty |-> "easy"]]
            : ks \in [1..n -> Range(UnnamedSkillNames)]}
           : n \in 1..MaxPool}

----------------------------------------------------------------------------
(* Direct calls of update_mastery, and the api.py session *)

\* select_assessment_questions has not been called
NoSelection == question_list = <<>> /\ count = 0 /\ selected = <<>>

\* one caller only: no concurrent callers of the instance
NoCallers == callers = <<>> /\ constructed = bkt

\* no request has been handled
NoResponse ==
    [handler |-> "", status_code |-> 0, detail |-> "", is_complete |-> FALSE,
     next_question |-> <<>>, message |-> "", answered |-> 0, total |-> 0,
     percentage |-> Zero]

\* no request has been handled, and learning.py has no user
NoRequests == response = NoResponse /\ learner = <<>>

InitUpdate ==
    /\ bkt \in Models
    /\ call \in {Pending(m, c, d) : m \in MasteryGrid, c \in BOOLEAN, d \in DifficultyArgs}
    /\ session = <<>>
    /\ attempts = <<>>
    /\ assessment = <<>>
    /\ skill_masteries = <<>>
    /\ available_questions = <<>>
    /\ threshold = Rat(4, 5)
    /\ exclude_ids = <<>>
    /\ decision = NoDecision
    /\ NoSelection
    /\ NoCallers
    /\ NoRequests

\* the application: the module-level bkt = BKTModel() and a started session
InitSession ==
    /\ bkt = BKTModel
    /\ call = Pending(BKTModel.p_init, TRUE, None)
    /\ session = <<StartedSession(BKTModel)>>
    /\ attempts = <<>>
    /\ assessment = <<>>
    /\ skill_masteries = <<>>
    /\ available_questions = <<>>
    /\ threshold = Rat(4, 5)
    /\ exclude_ids = <<>>
    /\ decision = NoDecision
    /\ NoSelection
    /\ NoCallers
    /\ NoRequests

\* the application: the router's bkt = BKTModel() and a started assessment
InitAssessment ==
    /\ bkt = BKTModel
    /\ call = Pending(BKTModel.p_init, TRUE, None)
    /\ session = <<>>
    /\ attempts = <<>>
    /\ assessment \in {<<a>> : a \in StartedAssessments(BKTModel)}
    /\ skill_masteries = <<>>
    /\ available_questions = <<>>
    /\ threshold = Rat(4, 5)
    /\ exclude_ids = <<>>
    /\ decision = NoDecision
    /\ NoSelection
    /\ NoCallers
    /\ NoRequests

\* the pending call is made: update_mastery(current_mastery, is_correct, question_difficulty)
UpdateMastery ==
    LET adj == AdjustedParams(bkt, call.question_difficulty)
    IN  /\ call' = [call EXCEPT
                       !.op = "update_mastery",
                       !.p_slip = adj.p_slip, !.p_guess = adj.p_guess, !.p_learn = adj.p_learn,
                       !.ret = update_mastery(bkt, call.current_mastery, call.is_correct,
                                              call.question_difficulty)]
        /\ UNCHANGED <<bkt, session, attempts, assessment,
                       skill_masteries, available_questions, threshold, exclude_ids, decision>>
        /\ UNCHANGED <<selectionVars, sharedVars, handlerVars>>

\* raise HTTPException(status_code, detail)
Rejected(handler, status_code, detail) ==
    [NoResponse EXCEPT !.handler = handler, !.status_code = status_code, !.detail = detail]

\* the question of the id among the stored questions: none or one
FindQuestion(question_id) == SelectSeq(StoreQuestions, LAMBDA q : q.id = question_id)

\* request.question_id: the ids of the stored questions, and one that names no question
QuestionIdArgs == Range([i \in 1..Len(StoreQuestions) |-> StoreQuestions[i].id]) \cup {"q0"}

\* variant: the answered questions are not filtered out
UnansweredOrNot(answered_questions) == StoreQuestions

\* [q for q in questions if q['id'] not in session['answered_questions']]
Unanswered(answered_questions) ==
    SelectSeq(StoreQuestions, LAMBDA q : q.id \notin Range(answered_questions))

\* the body of the response of submit_answer after the session was saved
AnswerResult(skill_masteries_now, answered_questions) ==
    LET available == Unanswered(answered_questions)
    IN  IF available # <<>>
        THEN {[NoResponse EXCEPT !.handler = "submit_answer", !.status_code = 200,
                                 !.next_question =
                                     IF d.question # <<>> THEN <<d.question[1].id>> ELSE <<>>]
              : d \in select_next_question(skill_masteries_now, available, Rat(4, 5), <<>>)}
        ELSE {[NoResponse EXCEPT !.handler = "submit_answer", !.status_code = 200,
                                 !.message = "Session complete! All questions answered."]}

\* api.py submit_answer(request)
submit_answer(question_id, answer) ==
    /\ session # <<>>
    /\ Len(session[1].answered_questions) < MaxAnswers
    /\ IF FindQuestion(question_id) = <<>>
       THEN /\ response' = Rejected("submit_answer", 404, "Question not found")
            /\ UNCHANGED <<session, attempts>>
       ELSE LET question == FindQuestion(question_id)[1]
                is_correct == StripLower(answer) = StripLower(question.correct_answer)
                skill == Get(question, "skill", "unknown")
                current_mastery ==
                    MapGet(session[1].skill_masteries, skill, initialize_skill(bkt, None))
                new_mastery == update_mastery(bkt, current_mastery, is_correct, None)
            IN  /\ new_mastery.exc = ""
                /\ session' = <<[skill_masteries |->
                                    MapSet(session[1].skill_masteries, skill, new_mastery.value),
                                 answered_questions |->
                                    Append(session[1].answered_questions, question_id)]>>
                /\ attempts' = Append(attempts,
                                      [question_id |-> question_id, is_correct |-> is_correct,
                                       skill |-> skill, mastery_before |-> current_mastery,
                                       mastery_after |-> new_mastery.value])
                /\ response' \in AnswerResult(session'[1].skill_masteries,
                                              session'[1].answered_questions)
    /\ UNCHANGED <<bkt, call, assessment,
                   skill_masteries, available_questions, threshold, exclude_ids, decision>>
    /\ UNCHANGED <<selectionVars, sharedVars, learner>>

SubmitAnswer == \E question_id \in QuestionIdArgs, answer \in Answers :
                    submit_answer(question_id, answer)

\* round(x, 1) of a non-negative number: to the nearest tenth, an exact tie to the even one
Round1(x) ==
    LET scaled == 10 * x[1]
        q == scaled \div x[2]
        r == scaled % x[2]
    IN  Rat(IF 2 * r > x[2] \/ (2 * r = x[2] /\ q % 2 = 1) THEN q + 1 ELSE q, 10)

\* api.py get_session(session_id): the progress it reports
GetSession ==
    /\ session # <<>>
    /\ LET total_questions == Len(StoreQuestions)
           answered_count == Len(session[1].answered_questions)
       IN  response' =
               [NoResponse EXCEPT
                   !.handler = "get_session", !.status_code = 200,
                   !.answered = answered_count, !.total = total_questions,
                   !.percentage =
                       IF total_questions > 0
                       THEN Round1(RMul(TrueDiv(Rat(answered_count, 1),
                                                Rat(total_questions, 1)).value,
                                        Rat(100, 1)))
                       ELSE Zero]
    /\ UNCHANGED <<bkt, call, session, attempts, assessment,
                   skill_masteries, available_questions, threshold, exclude_ids, decision>>
    /\ UNCHANGED <<selectionVars, sharedVars, learner>>

\* variant: any question of the assessment is taken at any step
IsCurrentStepAnyQuestion(stored, question_id) ==
    /\ stored.current_index < Len(stored.questions)
    /\ question_id \in Range(stored.questions)

\* "Verify this is the correct question for this step": the negation of the test of line 108
IsCurrentStep(stored, question_id) ==
    ~(\/ stored.current_index >= Len(stored.questions)
      \/ stored.questions[stored.current_index + 1] # question_id)

\* variant: complete one answer early
IsCompleteOneEarly(stored, current_index) == current_index >= Len(stored.questions) - 1

\* is_complete = assessment['current_index'] >= len(assessment['questions'])
IsComplete(stored, current_index) == current_index >= Len(stored.questions)

\* variant: the question just answered is sent again
NextQuestionIdSameStep(stored, current_index) == stored.questions[current_index]

\* next_question_id = assessment['questions'][assessment['current_index']]
NextQuestionId(stored, current_index) == stored.questions[current_index + 1]

\* assessment.py submit_assessment_answer(request); the coroutines of the in-memory
\* collections never suspend, so a request is handled without interleaving
submit_assessment_answer(question_id, answer) ==
    /\ assessment # <<>>
    /\ LET found == FindQuestion(question_id)
           current_index == assessment[1].current_index
       IN  IF assessment[1].status # "in_progress"
           THEN /\ response' = Rejected("submit_assessment_answer", 400,
                                        "Assessment is already complete")
                /\ UNCHANGED assessment
           ELSE IF found = <<>>
           THEN /\ response' = Rejected("submit_assessment_answer", 404, "Question not found")
                /\ UNCHANGED assessment
           ELSE IF ~IsCurrentStep(assessment[1], question_id)
           THEN /\ response' = Rejected("submit_assessment_answer", 400,
                                        "Invalid question for this assessment step")
                /\ UNCHANGED assessment
           ELSE LET question == found[1]
                    is_correct == StripLower(answer) = StripLower(question.correct_answer)
                    skill == Get(question, "skill", "unknown")
                    difficulty == Get(question, "difficulty", "medium")
                    current_mastery ==
                        MapGet(assessment[1].skill_masteries, skill,
                               initialize_skill(bkt, skill))
                    new_mastery == update_mastery(bkt, current_mastery, is_correct, difficulty)
                    is_complete == IsComplete(assessment[1], current_index + 1)
                IN  /\ new_mastery.exc = ""
                    /\ assessment' =
                          <<[assessment[1] EXCEPT
                               !.skill_masteries = MapSet(@, skill, new_mastery.value),
                               !.answers = MapSet(@, question_id, is_correct),
                               !.current_index = @ + 1,
                               !.status = IF is_complete THEN "completed" ELSE @]>>
                    /\ response' =
                          [NoResponse EXCEPT
                              !.handler = "submit_assessment_answer", !.status_code = 200,
                              !.is_complete = is_complete,
                              !.next_question =
                                  IF is_complete THEN <<>>
                                  ELSE <<FindQuestion(
                                           NextQuestionId(assessment[1],
                                                          current_index + 1))[1].id>>,
                              !.message = IF is_complete THEN "Assessment complete!" ELSE ""]
    /\ UNCHANGED <<bkt, call, session, attempts,
                   skill_masteries, available_questions, threshold, exclude_ids, decision>>
    /\ UNCHANGED <<selectionVars, sharedVars, learner>>

SubmitAssessmentAnswer == \E question_id \in QuestionIdArgs, answer \in Answers :
                              submit_assessment_answer(question_id, answer)

\* learning.py: a registered user who has answered nothing (users.py stores no masteries)
InitLearning ==
    /\ bkt = BKTModel
    /\ call = Pending(BKTModel.p_init, TRUE, None)
    /\ session = <<>>
    /\ attempts = <<>>
    /\ assessment = <<>>
    /\ skill_masteries = <<>>
    /\ available_questions = <<>>
    /\ threshold = Rat(4, 5)
    /\ exclude_ids = <<>>
    /\ decision = NoDecision
    /\ NoSelection
    /\ NoCallers
    /\ response = NoResponse
    /\ learner = <<[skill_masteries |-> <<>>, answers |-> <<>>]>>

\* learning.py submit_answer(submission): the answer is compared as it was sent, the
\* update is made by a BKTModel() of the request with the question's difficulty
learning_submit_answer(question_id, answer) ==
    /\ learner # <<>>
    /\ Len(learner[1].answers) < MaxAnswers
    /\ IF FindQuestion(question_id) = <<>>
       THEN /\ response' = Rejected("learning.submit_answer", 404, "Question not found")
            /\ UNCHANGED learner
       ELSE LET question == FindQuestion(question_id)[1]
                is_correct == answer = question.correct_answer
                skill == Get(question, "skill", "unknown")
                difficulty == Get(question, "difficulty", "medium")
                current_mastery ==
                    MapGet(learner[1].skill_masteries, skill,
                           initialize_skill(BKTModel, skill))
                new_mastery == update_mastery(BKTModel, current_mastery, is_correct, difficulty)
            IN  /\ new_mastery.exc = ""
                /\ learner' =
                      <<[skill_masteries |->
                            MapSet(learner[1].skill_masteries, skill, new_mastery.value),
                         answers |->
                            Append(learner[1].answers,
                                   [question_id |-> question_id, is_correct |-> is_correct,
                                    skill |-> skill, previous_mastery |-> current_mastery,
                                    new_mastery |-> new_mastery.value])]>>
                /\ response' = [NoResponse EXCEPT !.handler = "learning.submit_answer",
                                                  !.status_code = 200]
    /\ UNCHANGED <<bkt, call, session, attempts, assessment,
                   skill_masteries, available_questions, threshold, exclude_ids, decision>>
    /\ UNCHANGED <<selectionVars, sharedVars>>

LearningSubmitAnswer == \E question_id \in QuestionIdArgs, answer \in Answers :
                            learning_submit_answer(question_id, answer)

\* the masteries get_next_question selects with: the user's, or, if the user has none,
\* p_init for every skill tag of the subject's questions, in the order of a set's iteration
NextQuestionMasteries(stored_masteries) ==
    IF stored_masteries # <<>> THEN {stored_masteries}
    ELSE LET tagged == SelectSeq(StoreQuestions, LAMBDA q : q.skill # Absent)
         IN  {[i \in 1..Len(all_skills) |->
                  <<all_skills[i], initialize_skill(BKTModel, all_skills[i])>>]
              : all_skills \in Shuffles(GroupKeys(tagged))}

\* exclude_ids = [answer.get("question_id") for answer in answered_questions ...]
AnsweredIds(answers) == [i \in 1..Len(answers) |-> answers[i].question_id]

\* learning.py get_next_question(user_id, subject)
GetNextQuestion ==
    /\ learner # <<>>
    /\ \E masteries \in NextQuestionMasteries(learner[1].skill_masteries) :
          \E d \in select_next_question(masteries, StoreQuestions, Rat(4, 5),
                                        AnsweredIds(learner[1].answers)) :
              response' =
                  IF d.question = <<>>
                  THEN Rejected("get_next_question", 404, "No suitable questions found")
                  ELSE [NoResponse EXCEPT !.handler = "get_next_question",
                                          !.status_code = 200,
                                          !.next_question = <<d.question[1].id>>]
    /\ UNCHANGED <<bkt, call, session, attempts, assessment,
                   skill_masteries, available_questions, threshold, exclude_ids, decision>>
    /\ UNCHANGED <<selectionVars, sharedVars, learner>>

Init == InitUpdate \/ InitSession \/ InitAssessment \/ InitLearning

Next ==
    \/ UpdateMastery
    \/ SubmitAnswer \/ GetSession
    \/ SubmitAssessmentAnswer
    \/ LearningSubmitAnswer \/ GetNextQuestion

Spec == Init /\ [][Next]_vars

----------------------------------------------------------------------------
(* Calls of select_next_question *)

InitSelect ==
    /\ bkt = BKTModel
    /\ call = Pending(BKTModel.p_init, TRUE, None)
    /\ session = <<>>
    /\ attempts = <<>>
    /\ assessment = <<>>
    /\ skill_masteries \in MasteryMaps
    /\ available_questions \in Pools
    /\ threshold \in Thresholds
    /\ exclude_ids \in ExcludeLists(available_questions)
    /\ decision = NoDecision
    /\ NoSelection
    /\ NoCallers
    /\ NoRequests

\* the same call on a map and a pool that use the empty string as a skill identifier
InitSelectUnnamed ==
    /\ bkt = BKTModel
    /\ call = Pending(BKTModel.p_init, TRUE, None)
    /\ session = <<>>
    /\ attempts = <<>>
    /\ assessment = <<>>
    /\ skill_masteries \in UnnamedMasteryMaps
    /\ available_questions \in UnnamedPools
    /\ threshold \in Thresholds
    /\ exclude_ids = <<>>
    /\ decision = NoDecision
    /\ NoSelection
    /\ NoCallers
    /\ NoRequests

SelectNextQuestion ==
    /\ decision' \in select_next_question(skill_masteries, available_questions,
                                          threshold, exclude_ids)
    /\ UNCHANGED <<bkt, call, session, attempts, assessment,
                   skill_masteries, available_questions, threshold, exclude_ids>>
    /\ UNCHANGED <<selectionVars, sharedVars, handlerVars>>

NextSelect == SelectNextQuestion

SpecSelect == (InitSelect \/ InitSelectUnnamed) /\ [][NextSelect]_vars

----------------------------------------------------------------------------
(* Calls of select_assessment_questions *)

\* the question records the lists are drawn from; a skill or difficulty tag may be missing
Catalogue ==
    << [id |-> "a1", skill |-> "algebra", difficulty |-> "easy"],
       [id |-> "a2", skill |-> "algebra", difficulty |-> "hard"],
       [id |-> "a3", skill |-> "algebra", difficulty |-> Absent],
       [id |-> "g1", skill |-> "geometry", difficulty |-> "medium"],
       [id |-> "u1", skill |-> Absent, difficulty |-> "very_easy"] >>

\* the lists of at most MaxAssessmentPool catalogue questions; a question may repeat
AssessmentPools == UNION {[1..n -> Range(Catalogue)] : n \in 0..MaxAssessmentPool}

\* count: nothing asked, fewer than, as many as and more than the list holds (10: the default)
AssessmentCounts == {0, 1, 2, 3, 10}

\* variant: the caller's list itself is sorted
CallerQuestionsSorted(pool) == SortByDifficulty(pool)

\* the caller's list after the call: the skill groups are new lists, and only they are sorted
CallerQuestions(pool) == pool

InitAssess ==
    /\ bkt = BKTModel
    /\ call = Pending(BKTModel.p_init, TRUE, None)
    /\ session = <<>>
    /\ attempts = <<>>
    /\ assessment = <<>>
    /\ skill_masteries = <<>>
    /\ available_questions = <<>>
    /\ threshold = Rat(4, 5)
    /\ exclude_ids = <<>>
    /\ decision = NoDecision
    /\ question_list \in AssessmentPools
    /\ count \in AssessmentCounts
    /\ selected = <<>>
    /\ NoCallers
    /\ NoRequests

\* a caller that passes one list of catalogue questions to both selection functions
InitSelectCatalogue ==
    /\ bkt = BKTModel
    /\ call = Pending(BKTModel.p_init, TRUE, None)
    /\ session = <<>>
    /\ attempts = <<>>
    /\ assessment = <<>>
    /\ skill_masteries \in {<<>>, <<<<"algebra", Rat(1, 5)>>, <<"geometry", Rat(4, 5)>>>>}
    /\ available_questions \in AssessmentPools
    /\ threshold = Rat(4, 5)
    /\ exclude_ids \in ExcludeLists(available_questions)
    /\ decision = NoDecision
    /\ question_list = available_questions
    /\ count = 2
    /\ selected = <<>>
    /\ NoCallers
    /\ NoRequests

SelectAssessmentQuestions ==
    /\ selected' \in {<<s>> : s \in select_assessment_questions(question_list, count)}
    /\ question_list' = CallerQuestions(question_list)
    /\ UNCHANGED <<bkt, call, session, attempts, assessment, skill_masteries,
                   available_questions, threshold, exclude_ids, decision, count, sharedVars,
                   handlerVars>>

NextAssess == SelectAssessmentQuestions \/ SelectNextQuestion

SpecAssess == (InitAssess \/ InitSelectCatalogue) /\ [][NextAssess]_vars

----------------------------------------------------------------------------
(* Several callers of one shared BKTModel instance (the module-level bkt of api.py *)
(* and routes/assessment.py): each line that reads self is a step of its own      *)

Callers == {1, 2}

\* the instance: BKTModel() or BKTModel(0.5, 0.25, 0.2, 0.25)
SharedModels ==
    {BKTModel,
     [p_init |-> Rat(1, 2), p_learn |-> Rat(1, 4), p_slip |-> Rat(1, 5), p_guess |-> Rat(1, 4)]}

SharedDifficulties == {None, "hard", "easy"}

SharedSkillNames == {None, "algebra"}

\* each caller's own mastery map, candidate list and exclude_ids
OwnMasteries(c) ==
    IF c = 1 THEN <<<<"algebra", Rat(1, 5)>>, <<"geometry", Rat(4, 5)>>>>
    ELSE <<<<"geometry", Rat(3, 10)>>>>
OwnQuestions(c) == StoreQuestions
OwnExcluded(c) == IF c = 1 THEN <<>> ELSE <<"q3">>

\* a caller that has made no call yet
Idle ==
    [op |-> "idle", pc |-> "idle",
     current_mastery |-> Zero, is_correct |-> FALSE, question_difficulty |-> None,
     skill_name |-> None,
     p_slip |-> Zero, p_guess |-> Zero, p_learn |-> Zero,
     ret |-> <<>>, previous |-> <<>>]

\* the caller is between calls
Free(f) == f.pc \in {"idle", "done"}

\* the caller's latest returned update_mastery call, kept when it makes its next call
Remembered(f) ==
    IF f.op = "update_mastery" /\ f.pc = "done"
    THEN <<[current_mastery |-> f.current_mastery, is_correct |-> f.is_correct,
            question_difficulty |-> f.question_difficulty, ret |-> f.ret[1]]>>
    ELSE f.previous

\* variant: the adjusted slip is assigned to the instance (self.p_slip = ...)
SelfAfterSlipAdjustmentStored(self, p_slip) == [self EXCEPT !.p_slip = p_slip]

\* the instance after lines 199/202/205: only the local p_slip is assigned
SelfAfterSlipAdjustment(self, p_slip) == self

\* variant: the adjusted learning rate is assigned to the instance (self.p_learn = ...)
SelfAfterLearnAdjustmentStored(self, p_learn) == [self EXCEPT !.p_learn = p_learn]

\* the instance after lines 200/203/206: only the local p_learn is assigned
SelfAfterLearnAdjustment(self, p_learn) == self

\* the difficulty takes one of the three adjusting branches
Adjusts(question_difficulty) ==
    Truthy(question_difficulty) /\ question_difficulty \in {"hard", "easy", "very_easy"}

InitShared ==
    /\ bkt \in SharedModels
    /\ call = Pending(BKTModel.p_init, TRUE, None)
    /\ session = <<>>
    /\ attempts = <<>>
    /\ assessment = <<>>
    /\ skill_masteries = <<>>
    /\ available_questions = <<>>
    /\ threshold = Rat(4, 5)
    /\ exclude_ids = <<>>
    /\ decision = NoDecision
    /\ NoSelection
    /\ callers = [c \in Callers |-> Idle]
    /\ constructed = bkt
    /\ NoRequests

unshared == <<call, session, attempts, assessment, skill_masteries, available_questions,
              threshold, exclude_ids, decision, selectionVars, constructed, handlerVars>>

SharedMasteries == {Rat(3, 10)}

\* a caller calls bkt.update_mastery(current_mastery, is_correct, question_difficulty)
CallUpdateMastery ==
    \E c \in DOMAIN callers :
        \E m \in SharedMasteries, correct \in BOOLEAN, d \in SharedDifficulties :
            /\ Free(callers[c])
            /\ callers' = [callers EXCEPT ![c] =
                              [Idle EXCEPT !.op = "update_mastery", !.pc = "p_slip",
                                           !.current_mastery = m, !.is_correct = correct,
                                           !.question_difficulty = d,
                                           !.previous = Remembered(callers[c])]]
            /\ UNCHANGED <<bkt, unshared>>

\* line 193: p_slip = self.p_slip
ReadSlip ==
    \E c \in DOMAIN callers :
        /\ callers[c].op = "update_mastery" /\ callers[c].pc = "p_slip"
        /\ callers' = [callers EXCEPT ![c].p_slip = bkt.p_slip, ![c].pc = "p_guess"]
        /\ UNCHANGED <<bkt, unshared>>

\* line 194: p_guess = self.p_guess
ReadGuess ==
    \E c \in DOMAIN callers :
        /\ callers[c].op = "update_mastery" /\ callers[c].pc = "p_guess"
        /\ callers' = [callers EXCEPT ![c].p_guess = bkt.p_guess, ![c].pc = "p_learn"]
        /\ UNCHANGED <<bkt, unshared>>

\* line 195: p_learn = self.p_learn, and the tests of lines 197-204
ReadLearn ==
    \E c \in DOMAIN callers :
        /\ callers[c].op = "update_mastery" /\ callers[c].pc = "p_learn"
        /\ callers' = [callers EXCEPT
                          ![c].p_learn = bkt.p_learn,
                          ![c].pc = IF Adjusts(callers[c].question_difficulty)
                                    THEN "adjust_slip" ELSE "posterior"]
        /\ UNCHANGED <<bkt, unshared>>

\* lines 199, 202, 205: p_slip = min or max(self.p_slip * factor, bound)
AdjustSlip ==
    \E c \in DOMAIN callers :
        /\ callers[c].op = "update_mastery" /\ callers[c].pc = "adjust_slip"
        /\ LET p_slip == AdjustedParams(bkt, callers[c].question_difficulty).p_slip
           IN  /\ callers' = [callers EXCEPT ![c].p_slip = p_slip, ![c].pc = "adjust_learn"]
               /\ bkt' = SelfAfterSlipAdjustment(bkt, p_slip)
        /\ UNCHANGED unshared

\* lines 200, 203, 206: p_learn = min or max(self.p_learn * factor, bound)
AdjustLearn ==
    \E c \in DOMAIN callers :
        /\ callers[c].op = "update_mastery" /\ callers[c].pc = "adjust_learn"
        /\ LET p_learn == AdjustedParams(bkt, callers[c].question_difficulty).p_learn
           IN  /\ callers' = [callers EXCEPT ![c].p_learn = p_learn, ![c].pc = "posterior"]
               /\ bkt' = SelfAfterLearnAdjustment(bkt, p_learn)
        /\ UNCHANGED unshared

\* lines 209-230, on the locals alone: posterior, learning transition, clamp, return
ReturnUpdateMastery ==
    \E c \in DOMAIN callers :
        /\ callers[c].op = "update_mastery" /\ callers[c].pc = "posterior"
        /\ LET f == callers[c]
               adj == [p_slip |-> f.p_slip, p_guess |-> f.p_guess, p_learn |-> f.p_learn]
               p_known_given_response == Posterior(adj, f.current_mastery, f.is_correct)
           IN  /\ p_known_given_response.exc = ""
               /\ callers' = [callers EXCEPT
                     ![c].ret = <<Clamp(LearningTransition(p_known_given_response.value,
                                                           adj.p_learn))>>,
                     ![c].pc = "done"]
        /\ UNCHANGED <<bkt, unshared>>

\* a caller calls bkt.initialize_skill(skill_name)
CallInitializeSkill ==
    \E c \in DOMAIN callers : \E name \in SharedSkillNames :
        /\ Free(callers[c])
        /\ callers' = [callers EXCEPT ![c] =
                          [Idle EXCEPT !.op = "initialize_skill", !.pc = "p_init",
                                       !.skill_name = name,
                                       !.previous = Remembered(callers[c])]]
        /\ UNCHANGED <<bkt, unshared>>

\* line 42: return self.p_init
ReturnInitializeSkill ==
    \E c \in DOMAIN callers :
        /\ callers[c].op = "initialize_skill" /\ callers[c].pc = "p_init"
        /\ callers' = [callers EXCEPT
                          ![c].ret = <<initialize_skill(bkt, callers[c].skill_name)>>,
                          ![c].pc = "done"]
        /\ UNCHANGED <<bkt, unshared>>

\* a caller calls bkt.select_next_question on its own map, list and exclude_ids
CallSelectNextQuestion ==
    \E c \in DOMAIN callers :
        /\ Free(callers[c])
        /\ callers' = [callers EXCEPT ![c] =
                          [Idle EXCEPT !.op = "select_next_question", !.pc = "select",
                                       !.previous = Remembered(callers[c])]]
        /\ UNCHANGED <<bkt, unshared>>

\* lines 253-339: no line reads self; the call returns one of its decisions
ReturnSelectNextQuestion ==
    \E c \in DOMAIN callers :
        /\ callers[c].op = "select_next_question" /\ callers[c].pc = "select"
        /\ \E d \in select_next_question(OwnMasteries(c), OwnQuestions(c),
                                         Rat(4, 5), OwnExcluded(c)) :
              callers' = [callers EXCEPT ![c].ret = <<d>>, ![c].pc = "done"]
        /\ UNCHANGED <<bkt, unshared>>

NextShared ==
    \/ CallUpdateMastery \/ ReadSlip \/ ReadGuess \/ ReadLearn
    \/ AdjustSlip \/ AdjustLearn \/ ReturnUpdateMastery
    \/ CallInitializeSkill \/ ReturnInitializeSkill
    \/ CallSelectNextQuestion \/ ReturnSelectNextQuestion

SpecShared == InitShared /\ [][NextShared]_vars

----------------------------------------------------------------------------
(* Properties of update_mastery *)

InUnit(x) == RGe(x, Zero) /\ RLe(x, One)

Returned == call.op = "update_mastery"

\* C1: update_mastery returns (raises nothing) a value in [0, 1] for every mastery in
\* [0, 1], either answer, every difficulty and every model with probabilities in [0, 1];
\* every mastery stored in a session or an assessment, and every mastery recorded in an
\* attempt, is in [0, 1].
C1_MasteryInUnitInterval ==
    /\ Returned => call.ret.exc = "" /\ InUnit(call.ret.value)
    /\ \A s \in Range(session) : \A e \in Range(s.skill_masteries) : InUnit(e[2])
    /\ \A a \in Range(assessment) : \A e \in Range(a.skill_masteries) : InUnit(e[2])
    /\ \A a \in Range(attempts) : InUnit(a.mastery_before) /\ InUnit(a.mastery_after)

\* a direct call has returned and a session has taken MaxAnswers answers
C1_Witness ==
    /\ Returned
    /\ session # <<>>
    /\ Len(session[1].answered_questions) = MaxAnswers
    /\ \E e \in Range(session[1].skill_masteries) : e[2] # BKTModel.p_init

\* the result of the same call with the opposite answer
OppositeAnswer ==
    update_mastery(bkt, call.current_mastery, ~call.is_correct, call.question_difficulty)

Denominator ==
    IF call.is_correct
    THEN RAdd(RMul(call.current_mastery, RSub(One, call.p_slip)),
              RMul(RSub(One, call.current_mastery), call.p_guess))
    ELSE RAdd(RMul(call.current_mastery, call.p_slip),
              RMul(RSub(One, call.current_mastery), RSub(One, call.p_guess)))

\* C3 as stated: when the denominator is zero, update_mastery raises nothing and returns
\* the input current_mastery unmodified.
C3_Original ==
    (Returned /\ Denominator = Zero)
        => call.ret.exc = "" /\ call.ret.value = call.current_mastery

\* C3 amended: when the denominator is zero, update_mastery raises nothing, the evidence
\* step is a no-op and the learning transition still applies: it returns
\* current_mastery + (1 - current_mastery) * p_learn (effective p_learn), which is the
\* input itself exactly when current_mastery = 1 or the effective p_learn = 0.
C3_ZeroDenominatorKeepsPosterior ==
    (Returned /\ Denominator = Zero)
        => /\ call.ret.exc = ""
           /\ call.ret.value =
                 RAdd(call.current_mastery,
                      RMul(RSub(One, call.current_mastery), call.p_learn))
           /\ (call.ret.value = call.current_mastery)
                 <=> (call.current_mastery = One \/ call.p_learn = Zero)

\* a zero denominator at mastery 1 (incorrect answer, zero slip), learning possible
C3_Witness ==
    /\ Returned /\ Denominator = Zero
    /\ call.current_mastery = One /\ ~call.is_correct
    /\ RGt(call.p_learn, Zero) /\ RLt(call.p_learn, One)
    /\ call.ret.value = One

\* the two-stage filter of the specification on the effective parameters
RefQuotient(num, den) == Rat(num[1] * den[2], num[2] * den[1])

RefPosterior(p, correct, slip, guess) ==
    LET num == IF correct THEN RMul(p, RSub(One, slip)) ELSE RMul(p, slip)
        den == IF correct
               THEN RAdd(RMul(p, RSub(One, slip)), RMul(RSub(One, p), guess))
               ELSE RAdd(RMul(p, slip), RMul(RSub(One, p), RSub(One, guess)))
    IN  IF den = Zero THEN p ELSE RefQuotient(num, den)

RefUpdate(p, correct, slip, guess, learn) ==
    LET posterior == RefPosterior(p, correct, slip, guess)
        result == RAdd(posterior, RMul(RSub(One, posterior), learn))
    IN  IF RLt(result, Zero) THEN Zero ELSE IF RGt(result, One) THEN One ELSE result

\* C4: update_mastery returns the reference two-stage filter on the effective parameters:
\* the Bayes posterior (the input mastery when the denominator is zero), then
\* posterior + (1 - posterior) * learn, clamped to [0, 1].
C4_EqualsReferenceFilter ==
    Returned
        => /\ call.ret.exc = ""
           /\ call.ret.value = RefUpdate(call.current_mastery, call.is_correct,
                                         call.p_slip, call.p_guess, call.p_learn)

\* a returned call whose result differs from its input and from its posterior
C4_Witness ==
    /\ Returned
    /\ call.question_difficulty = "hard"
    /\ call.ret.value # call.current_mastery
    /\ call.ret.value # RefPosterior(call.current_mastery, call.is_correct,
                                     call.p_slip, call.p_guess)
    /\ RLt(call.ret.value, One)

\* the minimum and maximum of two rationals
Smaller(a, b) == IF RLe(a, b) THEN a ELSE b
Larger(a, b) == IF RGe(a, b) THEN a ELSE b

\* the table of effective p_slip and p_learn of the specification
TableSlip(d, slip) ==
    CASE d = "hard" -> Smaller(RMul(Rat(15, 10), slip), Rat(2, 10))
      [] d = "easy" -> Larger(RMul(Rat(7, 10), slip), Rat(5, 100))
      [] d = "very_easy" -> Larger(RMul(Rat(5, 10), slip), Rat(3, 100))
      [] OTHER -> slip

TableLearn(d, learn) ==
    CASE d = "hard" -> Smaller(RMul(Rat(12, 10), learn), Rat(3, 10))
      [] d = "easy" -> Larger(RMul(Rat(8, 10), learn), Rat(1, 10))
      [] d = "very_easy" -> Larger(RMul(Rat(6, 10), learn), Rat(5, 100))
      [] OTHER -> learn

\* C5: the effective p_slip and p_learn of a call follow the clamped table (hard never
\* above 0.2 / 0.3; medium or absent the base values, so 'medium' and an absent
\* difficulty give the same result), and p_guess is the base p_guess.
C5_EffectiveParameters ==
    Returned
        => /\ call.p_slip = TableSlip(call.question_difficulty, bkt.p_slip)
           /\ call.p_learn = TableLearn(call.question_difficulty, bkt.p_learn)
           /\ call.p_guess = bkt.p_guess
           /\ call.question_difficulty = "hard"
                 => RLe(call.p_slip, Rat(2, 10)) /\ RLe(call.p_learn, Rat(3, 10))
           /\ call.question_difficulty \in {"medium", None}
                 => /\ call.ret = update_mastery(bkt, call.current_mastery,
                                                 call.is_correct, "medium")
                    /\ call.ret = update_mastery(bkt, call.current_mastery,
                                                 call.is_correct, None)

\* a hard call in which both ceilings apply
C5_Witness ==
    /\ Returned
    /\ call.question_difficulty = "hard"
    /\ call.p_slip = Rat(2, 10) /\ RGt(RMul(Rat(15, 10), bkt.p_slip), Rat(2, 10))
    /\ call.p_learn = Rat(3, 10) /\ RGt(RMul(Rat(12, 10), bkt.p_learn), Rat(3, 10))

----------------------------------------------------------------------------
(* Properties of select_next_question *)

Selected == decision # NoDecision

StartsWith(s, prefix) == Len(s) >= Len(prefix) /\ SubSeq(s, 1, Len(prefix)) = prefix
EndsWith(s, suffix) ==
    Len(s) >= Len(suffix) /\ SubSeq(s, Len(s) - Len(suffix) + 1, Len(s)) = suffix

\* the candidates whose id is not in exclude_ids
PostExclusion == SelectSeq(available_questions, LAMBDA q : q.id \notin Range(exclude_ids))

\* C6: an empty candidate list returns (None, "No questions available"); a non-empty list
\* emptied by the exclusion returns (None, "No questions available after filtering");
\* in both cases the call returns, for any mastery state.
C6_EmptyPoolReasons ==
    /\ (~Selected /\ PostExclusion = <<>>) => ENABLED SelectNextQuestion
    /\ (Selected /\ available_questions = <<>>)
          => decision = [question |-> <<>>, reason |-> <<"No questions available">>]
    /\ (Selected /\ available_questions # <<>> /\ PostExclusion = <<>>)
          => decision = [question |-> <<>>,
                         reason |-> <<"No questions available after filtering">>]

\* every candidate is excluded, with weak skills in the mastery state
C6_Witness ==
    /\ Selected
    /\ Len(available_questions) = MaxPool /\ PostExclusion = <<>>
    /\ skill_masteries # <<>>
    /\ decision.reason = <<"No questions available after filtering">>

BelowThreshold == {i \in 1..Len(skill_masteries) : RLt(skill_masteries[i][2], threshold)}

\* the lowest-mastery skill below the threshold; among equals, the first of the map
IsTargetEntry(i) ==
    /\ i \in BelowThreshold
    /\ \A j \in BelowThreshold :
          \/ RLt(skill_masteries[i][2], skill_masteries[j][2])
          \/ (skill_masteries[i][2] = skill_masteries[j][2] /\ i <= j)

TargetEntry == CHOOSE i \in BelowThreshold : IsTargetEntry(i)

\* the candidates after exclusion tagged with the target skill
TargetCandidates ==
    IF BelowThreshold = {} THEN {}
    ELSE {q \in Range(PostExclusion) : q.skill = skill_masteries[TargetEntry][1]}

\* C8: when a skill is below threshold and the post-exclusion pool has a question of the
\* lowest-mastery such skill (the target), the returned question is tagged with the target
\* skill and the reason begins "Targeting weak skill: {target}".
C8_TargetsWeakestSkill ==
    (Selected /\ TargetCandidates # {})
        => /\ decision.question # <<>>
           /\ decision.question[1].skill = skill_masteries[TargetEntry][1]
           /\ StartsWith(decision.reason,
                         <<"Targeting weak skill: ", skill_masteries[TargetEntry][1]>>)

\* two skills below threshold, the pool holds questions of both, the weaker one is
\* second in the map
C8_Witness ==
    /\ Selected /\ TargetCandidates # {}
    /\ Cardinality(BelowThreshold) = 2 /\ TargetEntry = 2
    /\ \E q \in Range(PostExclusion) : q.skill = skill_masteries[1][1]
    /\ decision.question[1].skill = skill_masteries[2][1]

\* the preferred difficulty band of a mastery
Band(m) ==
    IF RLt(m, Rat(3, 10)) THEN {"very_easy", "easy"}
    ELSE IF RLt(m, Rat(6, 10)) THEN {"easy", "medium"}
    ELSE {"medium", "hard"}

TargetBand == Band(skill_masteries[TargetEntry][2])

\* C9: in the weak-skill branch, if the target skill has a candidate in the preferred band
\* of its mastery, the returned question's difficulty is in the band and the reason ends
\* "with {its difficulty} difficulty"; otherwise a question of the target skill outside
\* the band is returned and the reason has no difficulty suffix.
C9_PreferredDifficultyBand ==
    (Selected /\ TargetCandidates # {})
        => /\ decision.question # <<>>
           /\ LET q == decision.question[1]
              IN  IF \E c \in TargetCandidates : c.difficulty \in TargetBand
                  THEN /\ q.difficulty \in TargetBand
                       /\ EndsWith(decision.reason, <<") with ", q.difficulty, " difficulty">>)
                  ELSE /\ q \in TargetCandidates
                       /\ q.difficulty \notin TargetBand
                       /\ EndsWith(decision.reason, <<")">>)
                       /\ \A k \in 1..Len(decision.reason) :
                             decision.reason[k] # " difficulty"

\* the target's mastery is on the 0.3 boundary, candidates inside and outside the band
C9_Witness ==
    /\ Selected /\ TargetCandidates # {}
    /\ skill_masteries[TargetEntry][2] = Rat(3, 10)
    /\ \E c \in TargetCandidates : c.difficulty = "very_easy"
    /\ decision.question[1].difficulty = "medium"
    /\ EndsWith(decision.reason, <<") with ", "medium", " difficulty">>)

\* the decision came from the balancing or the random branch
FellThrough ==
    /\ decision.question # <<>>
    /\ \/ StartsWith(decision.reason, <<"Balancing skill exposure: ">>)
       \/ StartsWith(decision.reason,
                     <<"Random selection (all skills above threshold or no skill match)">>)

\* some skill below the threshold has a question in the post-exclusion pool
SomeWeakSkillMatches ==
    \E i \in BelowThreshold : \E q \in Range(PostExclusion) : q.skill = skill_masteries[i][1]

\* C10 as stated: the call falls through to balancing or random only when no
\* below-threshold skill has a question in the post-exclusion pool; otherwise the
\* decision is a "Targeting weak skill" decision.
C10_Original ==
    (Selected /\ decision.question # <<>>)
        => /\ FellThrough => ~SomeWeakSkillMatches
           /\ SomeWeakSkillMatches
                 => StartsWith(decision.reason, <<"Targeting weak skill: ">>)

\* C10 amended: the call falls through to balancing or random exactly when no skill is
\* below threshold or the target skill (the lowest-mastery below-threshold skill) has no
\* question in the post-exclusion pool, whether or not another below-threshold skill has
\* one; otherwise the decision is a "Targeting weak skill" decision.
C10_FallThroughOnlyWithoutTargetMatch ==
    (Selected /\ decision.question # <<>>)
        => /\ FellThrough <=> TargetCandidates = {}
           /\ TargetCandidates # {}
                 <=> StartsWith(decision.reason, <<"Targeting weak skill: ">>)

\* a below-threshold skill other than the target has a question, and the call fell through
C10_Witness ==
    /\ Selected /\ FellThrough
    /\ BelowThreshold # {} /\ TargetCandidates = {}
    /\ SomeWeakSkillMatches

\* the skill groups of the post-exclusion pool
PoolSkills == {Get(q, "skill", "unknown") : q \in Range(PostExclusion)}

\* the skills present in both the post-exclusion pool and the mastery state
CommonSkills == {s \in PoolSkills : HasKey(skill_masteries, s)}

\* the weak-skill branch does not return, and the balancing condition of the claim holds
BalancingCondition ==
    /\ TargetCandidates = {}
    /\ Cardinality(PoolSkills) > 1
    /\ skill_masteries # <<>> /\ CommonSkills # {}

\* C11: when the weak-skill branch does not return, the post-exclusion pool has more than
\* one skill group and some pool skill is a key of the mastery state, the returned
\* question's skill has the minimum mastery among the skills in both, and the reason begins
\* "Balancing skill exposure: {that skill}"; the random-fallback reason is returned only
\* when this condition fails.
C11_Original ==
    (Selected /\ decision.question # <<>>)
        => LET skill == Get(decision.question[1], "skill", "unknown")
           IN  /\ BalancingCondition
                     => /\ skill \in CommonSkills
                        /\ \A s \in CommonSkills :
                              RLe(Lookup(skill_masteries, skill), Lookup(skill_masteries, s))
                        /\ StartsWith(decision.reason, <<"Balancing skill exposure: ", skill>>)
               /\ StartsWith(decision.reason,
                             <<"Random selection (all skills above threshold or no skill match)">>)
                     => ~BalancingCondition

----------------------------------------------------------------------------
(* Properties of select_assessment_questions *)

\* C12: for every list and every count >= 0 the call returns exactly
\* min(count, len(questions)) questions: the whole list when count exceeds its length,
\* exactly count otherwise, and the empty list for an empty list.
C12_Original ==
    (selected # <<>> /\ count >= 0)
        => /\ Len(selected[1]) = Min2(count, Len(question_list))
           /\ count > Len(question_list) => Len(selected[1]) = Len(question_list)
           /\ question_list = <<>> => selected[1] = <<>>

\* the skill group of a question: q.get('skill', 'unknown')
SkillOf(q) == IF q.skill = Absent THEN "unknown" ELSE q.skill

\* the skill groups of the list
ListSkills == {SkillOf(q) : q \in Range(question_list)}

\* count after it is clamped to the length of the list
ClampedCount == IF count < Len(question_list) THEN count ELSE Len(question_list)

\* C13: whenever the clamped count is at least the number of distinct skills in the list,
\* the returned questions include at least one question of every skill of the list.
C13_EverySkillRepresented ==
    (selected # <<>> /\ ClampedCount >= Cardinality(ListSkills))
        => \A skill \in ListSkills : \E q \in Range(selected[1]) : SkillOf(q) = skill

\* two skills in a list of three, two questions asked: the larger group comes first
C13_Witness ==
    /\ selected # <<>>
    /\ Len(question_list) = 3 /\ count = 2 /\ Cardinality(ListSkills) = 2
    /\ SkillOf(question_list[1]) = SkillOf(question_list[2])
    /\ Len(selected[1]) = 2

\* the two lists hold the same questions, each as often as the other
SameQuestions(a, b) ==
    \A q \in Range(a) \cup Range(b) :
        Cardinality({i \in 1..Len(a) : a[i] = q}) = Cardinality({i \in 1..Len(b) : b[i] = q})

\* C14: two calls with the same list and the same count return the same questions,
\* differing at most in their order.
C14_SameQuestionsEveryCall ==
    [][(selected # <<>> /\ selected' # <<>> /\ question_list' = question_list)
          => SameQuestions(selected[1], selected'[1])]_vars

\* a call that drops a skill group to respect count returned the kept questions in an
\* order other than the list's
C14_Witness ==
    /\ selected # <<>>
    /\ Len(question_list) = 3 /\ count = 2 /\ Cardinality(ListSkills) = 3
    /\ selected[1] = <<question_list[2], question_list[1]>>

\* the rank of a difficulty: very_easy < easy < medium < hard, anything else as medium
RankOf(q) ==
    IF q.difficulty = "very_easy" THEN 0
    ELSE IF q.difficulty = "easy" THEN 1
    ELSE IF q.difficulty = "hard" THEN 3
    ELSE 2

\* the positions of the list that hold a question of the skill
GroupPositions(skill) == {i \in 1..Len(question_list) : SkillOf(question_list[i]) = skill}

\* the 0-based position of list entry i in the stable difficulty-ascending ordering of
\* its skill group
OrderedPosition(i) ==
    Cardinality({j \in GroupPositions(SkillOf(question_list[i])) :
                    \/ RankOf(question_list[j]) < RankOf(question_list[i])
                    \/ (RankOf(question_list[j]) = RankOf(question_list[i]) /\ j < i)})

\* step = max(1, n // questions_per_skill) of the group of list entry i
StepOf(i) ==
    LET n == Cardinality(GroupPositions(SkillOf(question_list[i])))
        per_skill == ClampedCount \div Cardinality(ListSkills)
        bounded == IF per_skill < 1 THEN 1 ELSE per_skill
    IN  IF n \div bounded < 1 THEN 1 ELSE n \div bounded

\* list entry i is one of the first questions_per_skill entries at positions
\* 0, step, 2*step, ... of its group's ordering
Sampled(i) ==
    LET per_skill == ClampedCount \div Cardinality(ListSkills)
        bounded == IF per_skill < 1 THEN 1 ELSE per_skill
    IN  /\ OrderedPosition(i) % StepOf(i) = 0
        /\ OrderedPosition(i) \div StepOf(i) < bounded

C16_ArgumentsUnchanged ==
    [][/\ skill_masteries' = skill_masteries
       /\ available_questions' = available_questions
       /\ exclude_ids' = exclude_ids
       /\ question_list' = question_list]_vars

\* both functions have returned for a list that is not in difficulty order and has an
\* excluded question
C16_Witness ==
    /\ selected # <<>> /\ decision.question # <<>>
    /\ skill_masteries # <<>> /\ exclude_ids # <<>>
    /\ Len(available_questions) = 3
    /\ RankOf(question_list[1]) > RankOf(question_list[2])
    /\ Len(selected[1]) = 2

----------------------------------------------------------------------------
(* Properties of the shared instance *)

\* the caller's call of the operation has returned
Done(c, op) == callers[c].op = op /\ callers[c].pc = "done"

\* the update_mastery calls on record: each caller's latest returned call and the one
\* it returned before
Recorded ==
    UNION {Range(callers[c].previous) \cup Range(Remembered(callers[c])) : c \in DOMAIN callers}

\* C17: update_mastery has no side effects: every call, with or without a difficulty that
\* adjusts the effective parameters, leaves the instance's p_init, p_learn, p_slip and
\* p_guess as constructed, and after any sequence of earlier calls equal arguments
\* (p, c, d) give equal results.
C17_UpdateMasteryHasNoSideEffects ==
    /\ bkt = constructed
    /\ \A a, b \in Recorded :
          (/\ a.current_mastery = b.current_mastery
           /\ a.is_correct = b.is_correct
           /\ a.question_difficulty = b.question_difficulty) => a.ret = b.ret

\* a caller repeated a returned "hard" call after the other caller's "easy" call returned
C17_Witness ==
    /\ Done(1, "update_mastery") /\ callers[1].question_difficulty = "hard"
    /\ callers[1].previous # <<>>
    /\ callers[1].previous[1].question_difficulty = "hard"
    /\ callers[1].previous[1].is_correct = callers[1].is_correct
    /\ Done(2, "update_mastery") /\ callers[2].question_difficulty = "easy"

\* C18: initialize_skill returns the instance's p_init for every skill name argument,
\* none included, after any sequence of other calls on the instance.
C18_InitializeSkillReturnsPInit ==
    \A c \in DOMAIN callers :
        Done(c, "initialize_skill") => callers[c].ret = <<constructed.p_init>>

\* a named skill is initialized on an instance whose p_init is not the default, after an
\* adjusting update_mastery call of the same caller and during one of the other caller
C18_Witness ==
    /\ Done(1, "initialize_skill") /\ callers[1].skill_name = "algebra"
    /\ constructed.p_init # BKTModel.p_init
    /\ callers[1].previous # <<>> /\ callers[1].previous[1].question_difficulty = "hard"
    /\ callers[2].op = "update_mastery" /\ callers[2].pc = "posterior"
    /\ callers[2].question_difficulty = "easy"

\* C19: calls of update_mastery, select_next_question and initialize_skill by several
\* callers of one instance, each with its own mastery map and list, do not interfere:
\* under every interleaving of their steps each call returns what it returns when run
\* alone on the instance as constructed (a selection: one of the same decisions).
C19_CallsDoNotInterfere ==
    \A c \in DOMAIN callers :
        /\ Done(c, "update_mastery")
              => callers[c].ret =
                    <<update_mastery(constructed, callers[c].current_mastery,
                                     callers[c].is_correct,
                                     callers[c].question_difficulty).value>>
        /\ Done(c, "initialize_skill")
              => callers[c].ret = <<initialize_skill(constructed, callers[c].skill_name)>>
        /\ Done(c, "select_next_question")
              => callers[c].ret[1] \in select_next_question(OwnMasteries(c), OwnQuestions(c),
                                                           Rat(4, 5), OwnExcluded(c))

\* a "hard" call returned although the other caller's "easy" call ran its adjustment
\* between the reads of the first
C19_Witness ==
    /\ Done(1, "update_mastery") /\ callers[1].question_difficulty = "hard"
    /\ callers[2].op = "update_mastery" /\ callers[2].pc = "posterior"
    /\ callers[2].question_difficulty = "easy"
    /\ callers[1].previous # <<>> /\ callers[2].previous # <<>>

----------------------------------------------------------------------------
(* Properties of the stored masteries *)

\* the stored question of the id
StoreQuestion(id) == CHOOSE q \in Range(StoreQuestions) : q.id = id

\* map new is map old with the mastery of the skill set to the value: every other
\* skill keeps its place and mastery, and the skill is added if it was missing
OnlySkillChanged(old, new, skill, value) ==
    /\ Len(new) = Len(old) + (IF \E i \in 1..Len(old) : old[i][1] = skill THEN 0 ELSE 1)
    /\ \A i \in 1..Len(old) :
          /\ new[i][1] = old[i][1]
          /\ old[i][1] # skill => new[i][2] = old[i][2]
    /\ \E i \in 1..Len(new) : new[i] = <<skill, value>>

\* the mastery of the skill before the answer: its value in the map, or p_init
MasteryBefore(old, skill) ==
    IF \E i \in 1..Len(old) : old[i][1] = skill
    THEN old[CHOOSE i \in 1..Len(old) : old[i][1] = skill][2]
    ELSE bkt.p_init

\* the session's answer just accepted: the map becomes the old one with the question's
\* skill at update_mastery(old value, is_correct)
SessionAnswerUpdatesOneSkill ==
    LET id == session'[1].answered_questions[Len(session'[1].answered_questions)]
        skill == SkillOf(StoreQuestion(id))
        before == MasteryBefore(session[1].skill_masteries, skill)
        is_correct == attempts'[Len(attempts')].is_correct
    IN  OnlySkillChanged(session[1].skill_masteries, session'[1].skill_masteries, skill,
                         update_mastery(bkt, before, is_correct, None).value)

\* the assessment's answer just accepted, the update made with the given difficulty
AssessmentAnswerUpdatesOneSkill(difficulty) ==
    LET id == assessment[1].questions[assessment[1].current_index + 1]
        skill == SkillOf(StoreQuestion(id))
        before == MasteryBefore(assessment[1].skill_masteries, skill)
        is_correct == Lookup(assessment'[1].answers, id)
    IN  OnlySkillChanged(assessment[1].skill_masteries, assessment'[1].skill_masteries,
                         skill, update_mastery(bkt, before, is_correct, difficulty).value)

\* the difficulty tag of the assessment question being answered, "medium" if it has none
AnsweredDifficulty ==
    LET q == StoreQuestion(assessment[1].questions[assessment[1].current_index + 1])
    IN  IF q.difficulty = Absent THEN "medium" ELSE q.difficulty

\* C20 as stated: in a session or an assessment an accepted answer changes the mastery
\* of exactly the answered question's skill, to update_mastery(old value, or p_init if the
\* skill was not in the map, is_correct); every other skill is unchanged and no skill is
\* removed.
C20_Original ==
    [][/\ session' # session => SessionAnswerUpdatesOneSkill
       /\ assessment' # assessment => AssessmentAnswerUpdatesOneSkill(None)]_vars

\* C20 amended: as stated for a session; in an assessment the new mastery is
\* update_mastery(old value or p_init, is_correct, the question's difficulty), the
\* difficulty being "medium" for a question without one.
C20_AnswerUpdatesOneSkill ==
    [][/\ session' # session => SessionAnswerUpdatesOneSkill
       /\ assessment' # assessment => AssessmentAnswerUpdatesOneSkill(AnsweredDifficulty)]_vars

\* an assessment has taken answers for questions of two skills, the first an easy one,
\* and both masteries have moved from p_init
C20_Witness ==
    /\ assessment # <<>>
    /\ assessment[1].current_index = 2
    /\ StoreQuestion(assessment[1].questions[1]).difficulty = "easy"
    /\ SkillOf(StoreQuestion(assessment[1].questions[1]))
          # SkillOf(StoreQuestion(assessment[1].questions[2]))
    /\ \A i \in 1..Len(assessment[1].skill_masteries) :
          assessment[1].skill_masteries[i][2] # bkt.p_init

----------------------------------------------------------------------------
(* Direction of the difficulty adjustment *)

\* the locals an 'easy' call of the same instance would use
EasyParams == AdjustedParams(bkt, "easy")

----------------------------------------------------------------------------
(* Properties of the assessment *)

\* the question the assessment is waiting for, none once the index has passed the end
CurrentQuestion ==
    IF assessment[1].current_index < Len(assessment[1].questions)
    THEN <<assessment[1].questions[assessment[1].current_index + 1]>>
    ELSE <<>>

StoredIds == {StoreQuestions[i].id : i \in 1..Len(StoreQuestions)}

\* the request is for another question than the current one, or the index is past the end
OffStep(question_id) == CurrentQuestion # <<question_id>>

\* C22 as stated: submit_assessment_answer with any question id other than the one at
\* current_index (or when current_index is past the end) is rejected with "Invalid
\* question for this assessment step" and leaves the stored assessment unchanged.
C22_Original ==
    [][\A question_id \in QuestionIdArgs, answer \in Answers :
          (submit_assessment_answer(question_id, answer) /\ OffStep(question_id))
              => /\ response'.status_code = 400
                 /\ response'.detail = "Invalid question for this assessment step"
                 /\ assessment' = assessment]_vars

\* C22 amended: such a request is rejected and leaves the stored assessment unchanged; the
\* rejection is "Assessment is already complete" when the assessment is completed (the only
\* state in which current_index is past the end), "Question not found" when the id names no
\* stored question, and "Invalid question for this assessment step" otherwise.
C22_OnlyCurrentQuestionAccepted ==
    [][\A question_id \in QuestionIdArgs, answer \in Answers :
          (submit_assessment_answer(question_id, answer) /\ OffStep(question_id))
              => /\ assessment' = assessment
                 /\ response'.handler = "submit_assessment_answer"
                 /\ response'.next_question = <<>>
                 /\ IF assessment[1].status # "in_progress"
                    THEN /\ response'.status_code = 400
                         /\ response'.detail = "Assessment is already complete"
                    ELSE IF question_id \notin StoredIds
                    THEN /\ response'.status_code = 404
                         /\ response'.detail = "Question not found"
                    ELSE /\ response'.status_code = 400
                         /\ response'.detail = "Invalid question for this assessment step"
                 /\ CurrentQuestion = <<>> => assessment[1].status = "completed"]_vars

\* after one accepted answer, a request for another question of the store was rejected
C22_Witness ==
    /\ assessment # <<>>
    /\ assessment[1].current_index = 1 /\ assessment[1].status = "in_progress"
    /\ response.detail = "Invalid question for this assessment step"

\* C23: in every state of a stored assessment 0 <= current_index <= len(questions) and
\* status is 'completed' exactly when current_index equals len(questions) (and
\* 'in_progress' otherwise); once completed, every further submit_assessment_answer is
\* rejected with "Assessment is already complete" and the assessment never changes again.
C23_CompletedIsFinal ==
    /\ [](\A a \in Range(assessment) :
             /\ 0 <= a.current_index /\ a.current_index <= Len(a.questions)
             /\ a.status \in {"in_progress", "completed"}
             /\ a.status = "completed" <=> a.current_index = Len(a.questions))
    /\ [][(assessment # <<>> /\ assessment[1].status = "completed")
             => /\ assessment' = assessment
                /\ \A question_id \in QuestionIdArgs, answer \in Answers :
                      submit_assessment_answer(question_id, answer)
                          => /\ response'.status_code = 400
                             /\ response'.detail = "Assessment is already complete"]_vars

\* an assessment of two questions was completed and a later answer rejected
C23_Witness ==
    /\ assessment # <<>>
    /\ assessment[1].status = "completed" /\ assessment[1].current_index = 2
    /\ response.detail = "Assessment is already complete"

\* the assessment has just taken an answer
AnswerAccepted == assessment' # assessment

\* C24: each accepted answer advances current_index by exactly one and records exactly one
\* new entry in answers, so the number of recorded answers always equals current_index;
\* the assessment is completed exactly when total_questions answers have been accepted,
\* and each response before the last carries the next question of the stored order (the
\* question at the new current_index), the last response none.
C24_OneStepPerAcceptedAnswer ==
    /\ [](\A a \in Range(assessment) :
             /\ Len(a.answers) = a.current_index
             /\ \A i \in 1..Len(a.answers) : a.answers[i][1] = a.questions[i]
             /\ a.status = "completed" <=> Len(a.answers) = Len(a.questions))
    /\ [][AnswerAccepted
             => /\ assessment'[1].current_index = assessment[1].current_index + 1
                /\ Len(assessment'[1].answers) = Len(assessment[1].answers) + 1
                /\ SubSeq(assessment'[1].answers, 1, Len(assessment[1].answers))
                      = assessment[1].answers
                /\ assessment'[1].questions = assessment[1].questions
                /\ response'.handler = "submit_assessment_answer"
                /\ response'.status_code = 200
                /\ IF assessment'[1].current_index < Len(assessment[1].questions)
                   THEN /\ ~response'.is_complete
                        /\ response'.next_question
                              = <<assessment[1].questions[assessment'[1].current_index + 1]>>
                        /\ assessment'[1].status = "in_progress"
                   ELSE /\ response'.is_complete
                        /\ response'.next_question = <<>>
                        /\ assessment'[1].status = "completed"]_vars

\* the second of three questions was answered and the response carries the third
C24_Witness ==
    /\ assessment # <<>>
    /\ Len(assessment[1].questions) = 3 /\ assessment[1].current_index = 2
    /\ response.handler = "submit_assessment_answer" /\ response.status_code = 200
    /\ response.next_question = <<assessment[1].questions[3]>>

----------------------------------------------------------------------------
(* Properties of the adaptive flow *)

SessionComplete == "Session complete! All questions answered."

\* C25: the next_question of submit_answer is never in the session's answered_questions,
\* and the message "Session complete! All questions answered." is returned exactly when no
\* unanswered question of the subject remains (a next question is returned otherwise);
\* get_next_question of learning.py never returns a question recorded in the user's
\* answers, and answers 404 exactly when every question is recorded there.
C25_NeverServesAnsweredQuestion ==
    /\ (response.handler = "submit_answer" /\ response.status_code = 200)
          => /\ \A id \in Range(response.next_question) :
                   id \in StoredIds \ Range(session[1].answered_questions)
             /\ response.message = SessionComplete
                   <=> StoredIds \subseteq Range(session[1].answered_questions)
             /\ response.message # SessionComplete => response.next_question # <<>>
    /\ response.handler = "get_next_question"
          => /\ \A id \in Range(response.next_question) :
                   id \in StoredIds \ Range(AnsweredIds(learner[1].answers))
             /\ response.status_code = 200 <=> response.next_question # <<>>
             /\ response.status_code = 404
                   <=> StoredIds \subseteq Range(AnsweredIds(learner[1].answers))

\* two questions of the session are answered and the response carries the third
C25_Witness ==
    /\ session # <<>>
    /\ Cardinality(Range(session[1].answered_questions)) = 2
    /\ response.handler = "submit_answer"
    /\ response.next_question # <<>>
    /\ Range(response.next_question) \cup Range(session[1].answered_questions) = StoredIds

\* the user has recorded two answers and get_next_question returns the third question
LearnerServedThirdQuestion ==
    /\ learner # <<>>
    /\ Cardinality(Range(AnsweredIds(learner[1].answers))) = 2
    /\ response.handler = "get_next_question"
    /\ response.next_question # <<>>

----------------------------------------------------------------------------
(* Further properties of select_next_question *)

\* C26: whenever at least one skill with mastery below threshold has a question in the
\* post-exclusion pool, the returned question is tagged with a skill whose mastery is below
\* threshold, whichever branch (weak-skill, balancing or random fallback) produces it.
C26_Original ==
    (Selected /\ SomeWeakSkillMatches)
        => /\ decision.question # <<>>
           /\ \E i \in BelowThreshold : decision.question[1].skill = skill_masteries[i][1]

\* C27: select_next_question returns None as the question only when the post-exclusion
\* pool is empty: for every non-empty post-exclusion pool and every mastery state (empty,
\* with skills that match no candidate, or with candidates whose skill is missing from the
\* state) it returns an element of that pool together with a non-empty reason.
C27_QuestionForNonEmptyPool ==
    Selected
        => /\ decision.question = <<>> <=> PostExclusion = <<>>
           /\ \A q \in Range(decision.question) : q \in Range(PostExclusion)
           /\ decision.reason # <<>> /\ decision.reason[1] # ""

\* a question is returned from a pool of untagged questions, one of them excluded, for a
\* mastery state whose skills match none of them
C27_Witness ==
    /\ Selected /\ decision.question # <<>>
    /\ skill_masteries # <<>> /\ exclude_ids # <<>>
    /\ Len(PostExclusion) < Len(available_questions)
    /\ \A q \in Range(available_questions) : q.skill = Absent

----------------------------------------------------------------------------
(* Further properties of select_assessment_questions *)

\* the number of times the question occurs in the list
Occurrences(q, qs) == Cardinality({i \in 1..Len(qs) : qs[i] = q})

\* selected after the per-skill first pass of the call
AfterFirstPass ==
    LET group_keys == GroupKeys(question_list)
    IN  FirstPass(question_list, group_keys, Len(group_keys),
                  QuestionsPerSkill(ClampedCount, Len(group_keys)))

\* C28 as stated: every returned question is an element of the input pool and no question
\* appears in the result more than once, after the first pass and after the fill pass.
C28_Original ==
    (selected # <<>> /\ question_list # <<>>)
        => /\ \A q \in Range(AfterFirstPass) :
                 q \in Range(question_list) /\ Occurrences(q, AfterFirstPass) = 1
           /\ \A q \in Range(selected[1]) :
                 q \in Range(question_list) /\ Occurrences(q, selected[1]) = 1

\* C28 amended: every returned question is an element of the input pool and no question
\* appears in the result more often than in the input pool (so never more than once for
\* a pool of distinct questions), after the first pass and after the fill pass.
C28_NoMoreCopiesThanPool ==
    (selected # <<>> /\ question_list # <<>>)
        => /\ \A q \in Range(AfterFirstPass) :
                 /\ q \in Range(question_list)
                 /\ Occurrences(q, AfterFirstPass) <= Occurrences(q, question_list)
           /\ \A q \in Range(selected[1]) :
                 /\ q \in Range(question_list)
                 /\ Occurrences(q, selected[1]) <= Occurrences(q, question_list)

\* three distinct questions of two skills: the first pass takes one of each skill, the
\* fill pass the third question
C28_Witness ==
    /\ selected # <<>>
    /\ Cardinality(Range(question_list)) = 3
    /\ Len(AfterFirstPass) = 2
    /\ Cardinality(Range(selected[1])) = 3

----------------------------------------------------------------------------
(* Properties of the session's progress *)

\* C29: after any sequence of submit_answer calls no question id occurs twice in
\* answered_questions, and the answered count reported by get_session never exceeds the
\* number of questions of the subject (progress percentage <= 100).
C29_Original ==
    /\ \A s \in Range(session) :
          \A i, j \in 1..Len(s.answered_questions) :
              i # j => s.answered_questions[i] # s.answered_questions[j]
    /\ response.handler = "get_session"
          => /\ response.answered <= response.total
             /\ RLe(response.percentage, Rat(100, 1))

----------------------------------------------------------------------------
(* Monotonicity of update_mastery *)

\* the effective p_slip plus p_guess of the call is at most 1
StandardRegime == RLe(RAdd(call.p_slip, call.p_guess), One)

CorrectAnswerLowers ==
    /\ Returned
    /\ call.is_correct
    /\ ~StandardRegime
    /\ RLt(call.ret.value, call.current_mastery)

====
